---- MODULE Spec2Model ----
(***************************************************************************)
(* Model of src/wallet/rpc.rs: the connection factory                      *)
(* (TryFrom<&RPCConfig> for Client) and Wallet::sync, run against a        *)
(* Bitcoin Core node whose answers are chosen nondeterministically.        *)
(***************************************************************************)
EXTENDS Integers, Sequences, FiniteSets, TLC

(* ---------------------------------------------------------------------- *)
(* Bounds of the model                                                     *)
(* ---------------------------------------------------------------------- *)
MaxHeight == 2          \* highest chain tip the node reaches
MaxRetries == 2         \* failed rescan attempts explored per sync() call
MaxBonds == 2           \* fidelity bonds the store can hold
Birthday == 1           \* the birthday height of a wallet that has one
MaxIndex == 1           \* highest derivation index the node reports as used

(* ---------------------------------------------------------------------- *)
(* Program constants                                                       *)
(* ---------------------------------------------------------------------- *)
LegacyWalletVersion == 210000   \* rpc.rs:95, "pre-0.21 use legacy wallets"

Versions == {200000, 210000}
ChainNames == {"main", "test", "regtest"}
ConfigNetworks == {"Regtest", "Signet"}

\* Option<T> is a sequence of length 0 (None) or 1 (Some(x)).
None == <<>>
Some(x) == <<x>>
UnwrapOr(o, d) == IF o = None THEN d ELSE o[1]
Max(a, b) == IF a >= b THEN a ELSE b
Range(s) == {s[i] : i \in 1..Len(s)}

(* ---------------------------------------------------------------------- *)
(* Connection factory                                                      *)
(* ---------------------------------------------------------------------- *)
\* utill::str_to_bitcoin_network: the chain name of getblockchaininfo to
\* the bitcoin::Network it denotes.
StrToBitcoinNetwork(s) ==
    CASE s = "main" -> "Bitcoin"
      [] s = "test" -> "Testnet"
      [] s = "signet" -> "Signet"
      [] s = "regtest" -> "Regtest"

\* variant: the comparison of rpc.rs:55 is left out
NetworkMatches_NoGuard(network, chain) == TRUE

\* rpc.rs:55, the guard of the connection factory (negated: TRUE = accept)
NetworkMatches(network, chain) == network = StrToBitcoinNetwork(chain)

\* try_from(config): rpc_ok = FALSE when get_blockchain_info()? fails
TryFrom(network, rpc_ok, chain) ==
    IF ~rpc_ok THEN "RpcErr"
    ELSE IF ~NetworkMatches(network, chain) THEN "Protocol"
    ELSE "Ok"

(* ---------------------------------------------------------------------- *)
(* Wallet store contents                                                   *)
(* ---------------------------------------------------------------------- *)
IncomingUniverse ==
    {[other_pubkey |-> "pkA1", my_pubkey |-> "pkB1", contract_redeemscript |-> "rs1"]}
OutgoingUniverse ==
    {[other_pubkey |-> "pkA2", my_pubkey |-> "pkB2", contract_redeemscript |-> "rs2"]}
\* script-pub-key of the i-th fidelity bond that is created
BondSpk(i) == <<"0020", "bond", i>>

\* utill::redeemscript_to_scriptpubkey: the P2WSH script of a redeemscript
RedeemscriptToScriptpubkey(rs) == <<"0020", rs>>

\* format!("wsh(sortedmulti(2,{},{}))", other, my)
MultisigText(sc) == <<"wsh(sortedmulti(2,", <<sc.other_pubkey, sc.my_pubkey>>>>
\* format!("raw({:x})", spk)
RawText(spk) == <<"raw(", spk>>

\* getdescriptorinfo(..).descriptor: the text with its checksum appended
DescriptorChecksum(d) == Len(d[2])
GetDescriptorInfo(d) == <<d, "#", DescriptorChecksum(d)>>

\* the wallet's own (external, internal) output descriptors
WalletDescriptors ==
    <<GetDescriptorInfo(<<"wpkh(", <<"xpub", "0/*">>>>),
      GetDescriptorInfo(<<"wpkh(", <<"xpub", "1/*">>>>)>>

\* Wallet::is_descriptor_imported, against the node's import ledger
IsDescriptorImported(d, led) == d \in led

\* Wallet::get_unimported_wallet_desc
GetUnimportedWalletDesc(led) ==
    SelectSeq(WalletDescriptors, LAMBDA d : ~IsDescriptorImported(d, led))

\* a set of swap-coins in the (fixed) iteration order of the map
RECURSIVE SetToSeq(_)
SetToSeq(S) ==
    IF S = {} THEN <<>>
    ELSE LET x == CHOOSE y \in S : TRUE IN <<x>> \o SetToSeq(S \ {x})

(* ---------------------------------------------------------------------- *)
(* Descriptor catalog of sync(), rpc.rs:113-205                            *)
(* ---------------------------------------------------------------------- *)
\* rpc.rs:117-136: multisig descriptors of a swap-coin map, filtered
MultisigDescriptors(coins, led) ==
    SelectSeq([i \in 1..Len(SetToSeq(coins)) |->
                   GetDescriptorInfo(MultisigText(SetToSeq(coins)[i]))],
              LAMBDA d : ~IsDescriptorImported(d, led))

\* variant: the filter of rpc.rs:146/157 without its negation
ContractDescriptors_KeepImported(coins, led) ==
    SelectSeq([i \in 1..Len(SetToSeq(coins)) |->
                   GetDescriptorInfo(RawText(RedeemscriptToScriptpubkey(
                       SetToSeq(coins)[i].contract_redeemscript)))],
              LAMBDA d : IsDescriptorImported(d, led))

\* rpc.rs:138-159: raw contract descriptors of a swap-coin map, filtered
ContractDescriptors(coins, led) ==
    SelectSeq([i \in 1..Len(SetToSeq(coins)) |->
                   GetDescriptorInfo(RawText(RedeemscriptToScriptpubkey(
                       SetToSeq(coins)[i].contract_redeemscript)))],
              LAMBDA d : ~IsDescriptorImported(d, led))

\* rpc.rs:165-191: derive_addresses + get_address_info(..).is_watchonly
IsWatchonly(spk, led) == GetDescriptorInfo(RawText(spk)) \in led

\* rpc.rs:161-194
IsFidelityAddrsImported(bonds, led) ==
    LET first_addr == IF Len(bonds) >= 1 THEN Some(bonds[1]) ELSE None
        \* spks.last() after spks.next(): None for a single bond
        last_addr == IF Len(bonds) >= 2 THEN Some(bonds[Len(bonds)]) ELSE None
        is_first_imported ==
            IF first_addr # None THEN IsWatchonly(first_addr[1], led) ELSE TRUE
        is_last_imported ==
            IF last_addr # None THEN IsWatchonly(last_addr[1], led) ELSE TRUE
    IN is_first_imported /\ is_last_imported

\* rpc.rs:196-201: every fidelity bond descriptor, unfiltered
FidelityDescriptors(bonds) ==
    [i \in 1..Len(bonds) |-> GetDescriptorInfo(RawText(bonds[i]))]

\* rpc.rs:113-201
DescriptorsToImport(incoming, outgoing, bonds, led) ==
    GetUnimportedWalletDesc(led)
      \o MultisigDescriptors(incoming, led)
      \o MultisigDescriptors(outgoing, led)
      \o ContractDescriptors(incoming, led)
      \o ContractDescriptors(outgoing, led)
      \o FidelityDescriptors(bonds)

\* variant: the early return of rpc.rs:203-205 is left out
ShortCircuit_Never(batch, fidelity_imported) == FALSE

\* variant: the probe result of rpc.rs:203 negated
ShortCircuit_NegatedProbe(batch, fidelity_imported) ==
    batch = <<>> /\ ~fidelity_imported

\* rpc.rs:203
ShortCircuit(batch, fidelity_imported) == batch = <<>> /\ fidelity_imported

(* ---------------------------------------------------------------------- *)
(* Wallet resolution, rescan loop                                          *)
(* ---------------------------------------------------------------------- *)
\* variant: the list_wallets test of rpc.rs:88 is left out
WalletResolution_SkipLoaded(loaded, in_dir, ver) ==
    IF in_dir THEN "load"
    ELSE IF ver < LegacyWalletVersion THEN "create_legacy"
    ELSE "create_call"

\* variant: the version test of rpc.rs:95 with <= for <
WalletResolution_Inclusive(loaded, in_dir, ver) ==
    IF loaded THEN "already"
    ELSE IF in_dir THEN "load"
    ELSE IF ver <= LegacyWalletVersion THEN "create_legacy"
    ELSE "create_call"

\* rpc.rs:88-111: which branch of the if / else if / else is taken
WalletResolution(loaded, in_dir, ver) ==
    IF loaded THEN "already"
    ELSE IF in_dir THEN "load"
    ELSE IF ver < LegacyWalletVersion THEN "create_legacy"
    ELSE "create_call"

\* the requests of a branch, in the order the code makes them
ResolveCalls(r) ==
    CASE r = "already" -> <<"listwallets">>
      [] r = "load" -> <<"listwallets", "listwalletdir", "loadwallet">>
      [] OTHER -> <<"listwallets", "listwalletdir", "getnetworkinfo", "createwallet">>

\* variant: the scan resumes at the block after the recorded one
RescanStart_Next(lsh, birthday) ==
    Max(UnwrapOr(lsh, 0), UnwrapOr(birthday, 0)) + 1

\* variant: the wallet birthday is left out of the start height
RescanStart_NoBirthday(lsh, birthday) == UnwrapOr(lsh, 0)

\* rpc.rs:217-219
RescanStart(lsh, birthday) == Max(UnwrapOr(lsh, 0), UnwrapOr(birthday, 0))

\* variant: records the block below the tip that was read
NewLastSyncedHeight_OffByOne(start, end) ==
    IF end > 0 THEN Some(end - 1) ELSE Some(0)

\* variant: records the block after the end of the scanned interval
NewLastSyncedHeight_Ahead(start, end) == Some(end + 1)

\* variant: records the start of the scanned interval
NewLastSyncedHeight_Start(start, end) == Some(start)

\* rpc.rs:229
NewLastSyncedHeight(start, end) == Some(end)

\* variant: the Ok arm of rpc.rs:228 continues the loop like the Err arm
OnRescanResult_NeverBreak(res) == "retry"

\* variant: the Err arm of rpc.rs:233 leaves the loop like the Ok arm
OnRescanResult_AlwaysBreak(res) == "break"

\* rpc.rs:228-237: what the match does with the result of rescan_blockchain
OnRescanResult(res) == IF res = "Ok" THEN "break" ELSE "retry"

\* variant: the result of rpc.rs:209 is dropped, not propagated
AfterImport_Ignored(ok) == "continue"

\* rpc.rs:209: the ? after import_descriptors
AfterImport(ok) == IF ok THEN "continue" ELSE "return"

\* the two requests of the HD index step, rpc.rs:241-242
HdRequests == {"find_hd_next_index", "update_external_index"}

\* variant: the two results of rpc.rs:241-242 are dropped, not propagated
HdIndexReturn_Swallowed(find_ok, update_ok) == "none"

\* rpc.rs:241-243: the request whose error the two ? return, "none" for Ok
HdIndexReturn(find_ok, update_ok) ==
    IF ~find_ok THEN "find_hd_next_index"
    ELSE IF ~update_ok THEN "update_external_index"
    ELSE "none"

\* Wallet::update_external_index: the watermark after rpc.rs:241-242
UpdateExternalIndex(old, found, done) == IF done THEN found ELSE old

(* ---------------------------------------------------------------------- *)
(* State                                                                   *)
(* ---------------------------------------------------------------------- *)
VARIABLES
    conn,                  \* result of Client::try_from, "none" before it ran
    config_network,        \* RPCConfig.network
    chain,                 \* get_blockchain_info().chain as reported
    wallet_state,          \* node: "loaded", "ondisk" or "absent"
    ledger,                \* node: descriptors imported as watch-only
    tip,                   \* node: height of the chain tip
    incoming_swapcoins,    \* store.incoming_swapcoins.values()
    outgoing_swapcoins,    \* store.outgoing_swapcoins.values()
    fidelity_bond,         \* store.fidelity_bond, script-pub-keys in order
    last_synced_height,    \* store.last_synced_height : Option<u64>
    wallet_birthday,       \* store.wallet_birthday : Option<u64>
    pc,                    \* position of sync()
    result,                \* what the last sync() returned
    err_at,                \* the request whose failure it returned
    descriptors_to_import, \* local of sync()
    is_fidelity_addrs_imported, \* local of sync()
    scan_start,            \* local last_synced_height of the loop
    node_synced,           \* local node_synced of the loop
    observed,              \* wallet_state when this sync() started
    version,               \* rpc.version() as read by this sync(), else 0
    create_kind,           \* "legacy", "call" or "none" in this sync()
    calls,                 \* requests and sleeps of this sync(), by kind
    since_ok,              \* last sync() returned Ok, nothing changed since
    idem_call,             \* this sync() started with since_ok
    external_index,        \* store.external_index, the HD watermark
    hd_outcome,            \* answer to the HD index step of this sync()
    create_issued,         \* some sync() has issued a create-wallet request
    bootstrapped,          \* some sync() found, loaded or created the wallet
    late_call              \* this sync() follows one that failed in the HD step

node_vars == <<wallet_state, ledger, tip>>
store_vars == <<incoming_swapcoins, outgoing_swapcoins, fidelity_bond,
                last_synced_height, wallet_birthday>>
conn_vars == <<conn, config_network, chain>>
local_vars == <<descriptors_to_import, is_fidelity_addrs_imported,
                scan_start, node_synced>>
resolve_vars == <<observed, version, create_kind>>
hd_vars == <<external_index, hd_outcome>>
boot_vars == <<create_issued, bootstrapped>>
vars == <<conn, config_network, chain, wallet_state, ledger, tip,
          incoming_swapcoins, outgoing_swapcoins, fidelity_bond,
          last_synced_height, wallet_birthday, pc, result, err_at,
          descriptors_to_import, is_fidelity_addrs_imported, scan_start,
          node_synced, observed, version, create_kind, calls,
          since_ok, idem_call, external_index, hd_outcome, create_issued,
          bootstrapped, late_call>>

NoCalls == [load |-> 0, create |-> 0, import |-> 0, rescan |-> 0,
            sleep |-> 0, contention |-> 0, other |-> 0, Ok |-> 0,
            writes |-> 0, imported |-> 0]

Init ==
    /\ conn = "none"
    /\ config_network = "none"
    /\ chain = "none"
    /\ wallet_state \in {"loaded", "ondisk", "absent"}
    /\ ledger = {}
    /\ tip \in 0..1
    /\ incoming_swapcoins = {}
    /\ outgoing_swapcoins = {}
    /\ fidelity_bond = <<>>
    /\ last_synced_height \in {None} \cup {Some(h) : h \in 0..tip}
    /\ wallet_birthday \in {None, Some(Birthday)}
    /\ pc = "idle"
    /\ result = "none"
    /\ err_at = "none"
    /\ descriptors_to_import = <<>>
    /\ is_fidelity_addrs_imported = TRUE
    /\ scan_start = 0
    /\ node_synced = 0
    /\ observed = "none"
    /\ version = 0
    /\ create_kind = "none"
    /\ calls = NoCalls
    /\ since_ok = FALSE
    /\ idem_call = FALSE
    /\ external_index = 0
    /\ hd_outcome = "none"
    /\ create_issued = FALSE
    /\ bootstrapped = FALSE
    /\ late_call = FALSE

(* ---------------------------------------------------------------------- *)
(* Actions                                                                 *)
(* ---------------------------------------------------------------------- *)
\* Client::try_from(&config), rpc.rs:46-61
Connect ==
    /\ conn = "none"
    /\ \E network \in ConfigNetworks, rpc_ok \in BOOLEAN, ch \in ChainNames :
        /\ conn' = TryFrom(network, rpc_ok, ch)
        /\ config_network' = network
        /\ chain' = IF rpc_ok THEN ch ELSE "none"
    /\ UNCHANGED <<node_vars, store_vars, local_vars, resolve_vars, pc,
                   result, err_at, calls, since_ok, idem_call,
                   hd_vars,
                   boot_vars,
                   late_call>>

\* sync() returns Err(e) from the request named at
Fail(at) ==
    /\ pc' = "done"
    /\ result' = "Err"
    /\ err_at' = at
    /\ since_ok' = FALSE

Count(s, x) == Cardinality({i \in 1..Len(s) : s[i] = x})

\* sync(), rpc.rs:86-111: create or load the watch-only wallet.  f is the
\* position of the request that fails, 0 when none does.
SyncResolve ==
    /\ conn = "Ok"
    /\ pc \in {"idle", "done"}
    /\ \E ver \in Versions, f \in 0..4 :
        LET r == WalletResolution(wallet_state = "loaded",
                                  wallet_state \in {"loaded", "ondisk"}, ver)
            cs == ResolveCalls(r)
            made == IF f = 0 THEN cs ELSE SubSeq(cs, 1, f)
        IN  /\ f <= Len(cs)
            /\ create_issued' = (create_issued \/ Count(made, "createwallet") = 1)
            /\ bootstrapped' = (bootstrapped \/ f = 0)
            /\ observed' = wallet_state
            /\ version' = IF Count(made, "getnetworkinfo") = 1 /\ f # 3
                          THEN ver ELSE 0
            /\ create_kind' = IF Count(made, "createwallet") = 0 THEN "none"
                              ELSE IF r = "create_legacy" THEN "legacy"
                              ELSE "call"
            /\ calls' = [NoCalls EXCEPT !.load = Count(made, "loadwallet"),
                                        !.create = Count(made, "createwallet")]
            /\ IF f = 0
               THEN /\ wallet_state' = "loaded"
                    /\ pc' = "catalog"
                    /\ result' = "none"
                    /\ err_at' = "none"
                    /\ since_ok' = since_ok
               ELSE /\ wallet_state' = wallet_state
                    /\ Fail(cs[f])
    /\ idem_call' = since_ok
    /\ descriptors_to_import' = <<>>
    /\ is_fidelity_addrs_imported' = TRUE
    /\ scan_start' = 0
    /\ node_synced' = 0
    /\ hd_outcome' = "none"
    /\ late_call' = (pc = "done" /\ result = "Err" /\ err_at \in HdRequests)
    /\ UNCHANGED <<conn_vars, ledger, tip, store_vars, external_index>>

\* sync() returns Ok(())
ReturnOk ==
    /\ pc' = "done"
    /\ result' = "Ok"
    /\ err_at' = "none"
    /\ since_ok' = TRUE

\* sync(), rpc.rs:113-205: build the batch, probe the fidelity bonds and
\* take the early return.  get_unimported_wallet_desc()? can fail; the
\* unwrap() of a node answer panics, when a swap-coin or bond needs one.
SyncBuildCatalog ==
    /\ pc = "catalog"
    /\ \E outcome \in {"ok", "err", "panic"} :
        /\ outcome = "panic" =>
              (incoming_swapcoins \cup outgoing_swapcoins # {}
                 \/ fidelity_bond # <<>>)
        /\ CASE outcome = "err" ->
                 /\ Fail("get_unimported_wallet_desc")
                 /\ UNCHANGED <<descriptors_to_import, is_fidelity_addrs_imported>>
             [] outcome = "panic" ->
                 /\ pc' = "panicked"
                 /\ result' = "Panic"
                 /\ err_at' = "getdescriptorinfo"
                 /\ since_ok' = FALSE
                 /\ UNCHANGED <<descriptors_to_import, is_fidelity_addrs_imported>>
             [] outcome = "ok" ->
                 LET batch == DescriptorsToImport(incoming_swapcoins,
                                  outgoing_swapcoins, fidelity_bond, ledger)
                     probe == IsFidelityAddrsImported(fidelity_bond, ledger)
                 IN  /\ descriptors_to_import' = batch
                     /\ is_fidelity_addrs_imported' = probe
                     /\ IF ShortCircuit(batch, probe)
                        THEN ReturnOk
                        ELSE /\ pc' = "import"
                             /\ UNCHANGED <<result, err_at, since_ok>>
    /\ UNCHANGED <<conn_vars, node_vars, store_vars, scan_start, node_synced,
                   resolve_vars, calls, idem_call,
                   hd_vars,
                   boot_vars,
                   late_call>>

\* sync(), rpc.rs:209: self.import_descriptors(&descriptors_to_import, None)?
SyncImport ==
    /\ pc = "import"
    /\ \E ok \in BOOLEAN :
        /\ ledger' = IF ok THEN ledger \cup Range(descriptors_to_import)
                      ELSE ledger
        /\ calls' = [calls EXCEPT !.import = @ + 1,
                                  !.imported = IF ok THEN @ + 1 ELSE @]
        /\ IF AfterImport(ok) = "continue"
           THEN /\ pc' = "loop"
                /\ UNCHANGED <<result, err_at, since_ok>>
           ELSE Fail("importdescriptors")
    /\ UNCHANGED <<conn_vars, wallet_state, tip, store_vars, local_vars,
                   resolve_vars, idem_call,
                   hd_vars,
                   boot_vars,
                   late_call>>

\* sync(), rpc.rs:217-220: top of the loop, the bounds of this attempt
SyncGetBlockCount ==
    /\ pc = "loop"
    /\ scan_start' = RescanStart(last_synced_height, wallet_birthday)
    /\ \E ok \in BOOLEAN :
        IF ok
        THEN /\ node_synced' = tip
             /\ pc' = "rescan"
             /\ UNCHANGED <<result, err_at, since_ok>>
        ELSE /\ node_synced' = node_synced
             /\ Fail("getblockcount")
    /\ UNCHANGED <<conn_vars, node_vars, store_vars, descriptors_to_import,
                   is_fidelity_addrs_imported, resolve_vars, calls, idem_call,
                   hd_vars,
                   boot_vars,
                   late_call>>

\* sync(), rpc.rs:222-238: one rescan_blockchain request and its match.
\* The node answers Ok, or fails because another scan is running
\* ("contention"), or fails for another reason ("other").
SyncRescan ==
    /\ pc = "rescan"
    /\ \E res \in {"Ok", "contention", "other"} :
        /\ OnRescanResult(res) = "retry" => calls.sleep < MaxRetries
        /\ IF OnRescanResult(res) = "break"
           THEN /\ last_synced_height' = NewLastSyncedHeight(scan_start, node_synced)
                /\ calls' = [calls EXCEPT !.rescan = @ + 1,
                                          ![res] = @ + 1,
                                          !.writes = @ + 1]
                /\ pc' = "hd"
           ELSE /\ last_synced_height' = last_synced_height
                /\ calls' = [calls EXCEPT !.rescan = @ + 1,
                                          !.sleep = @ + 1,
                                          ![res] = @ + 1]
                /\ pc' = "loop"
    /\ UNCHANGED <<conn_vars, node_vars, incoming_swapcoins, outgoing_swapcoins,
                   fidelity_bond, wallet_birthday, local_vars, resolve_vars,
                   result, err_at, since_ok, idem_call,
                   hd_vars,
                   boot_vars,
                   late_call>>

\* sync(), rpc.rs:241-243: find_hd_next_index()? and update_external_index()?
\* The node answers both, or fails the index query ("find"), or the update
\* of the watermark fails ("update").
SyncHdIndex ==
    /\ pc = "hd"
    /\ \E outcome \in {"ok", "find", "update"}, idx \in 0..MaxIndex :
        LET at == HdIndexReturn(outcome # "find", outcome # "update")
        IN  /\ hd_outcome' = outcome
            /\ external_index' = UpdateExternalIndex(external_index, idx, outcome = "ok")
            /\ IF at = "none" THEN ReturnOk ELSE Fail(at)
    /\ UNCHANGED <<conn_vars, node_vars, store_vars, local_vars, resolve_vars,
                   calls, idem_call,
                   boot_vars,
                   late_call>>

\* the node connects a block
MineBlock ==
    /\ tip < MaxHeight
    /\ tip' = tip + 1
    /\ since_ok' = FALSE
    /\ idem_call' = FALSE
    /\ UNCHANGED <<conn_vars, wallet_state, ledger, store_vars, local_vars,
                   resolve_vars, pc, result, err_at, calls,
                   hd_vars,
                   boot_vars,
                   late_call>>

\* between two sync() calls the rest of the wallet adds a tracked entity;
\* the locals of the sync() that returned are gone
Added ==
    /\ conn = "Ok"
    /\ pc \in {"idle", "done"}
    /\ pc' = "idle"
    /\ result' = "none"
    /\ err_at' = "none"
    /\ descriptors_to_import' = <<>>
    /\ is_fidelity_addrs_imported' = TRUE
    /\ scan_start' = 0
    /\ node_synced' = 0
    /\ observed' = "none"
    /\ version' = 0
    /\ create_kind' = "none"
    /\ calls' = NoCalls
    /\ hd_outcome' = "none"
    /\ since_ok' = FALSE
    /\ idem_call' = FALSE
    /\ late_call' = FALSE
    /\ UNCHANGED <<conn_vars, node_vars, last_synced_height, wallet_birthday,
                   external_index, boot_vars>>

AddIncomingSwapcoin ==
    /\ \E sc \in IncomingUniverse \ incoming_swapcoins :
          incoming_swapcoins' = incoming_swapcoins \cup {sc}
    /\ Added
    /\ UNCHANGED <<outgoing_swapcoins, fidelity_bond>>

AddOutgoingSwapcoin ==
    /\ \E sc \in OutgoingUniverse \ outgoing_swapcoins :
          outgoing_swapcoins' = outgoing_swapcoins \cup {sc}
    /\ Added
    /\ UNCHANGED <<incoming_swapcoins, fidelity_bond>>

AddFidelityBond ==
    /\ Len(fidelity_bond) < MaxBonds
    /\ fidelity_bond' = Append(fidelity_bond, BondSpk(Len(fidelity_bond) + 1))
    /\ Added
    /\ UNCHANGED <<incoming_swapcoins, outgoing_swapcoins>>

Next ==
    \/ Connect
    \/ SyncResolve
    \/ SyncBuildCatalog
    \/ SyncImport
    \/ SyncGetBlockCount
    \/ SyncRescan
    \/ SyncHdIndex
    \/ MineBlock
    \/ AddIncomingSwapcoin
    \/ AddOutgoingSwapcoin
    \/ AddFidelityBond

Spec == Init /\ [][Next]_vars

(* ---------------------------------------------------------------------- *)
(* A node on which only scan contention occurs: every request other than   *)
(* rescan_blockchain is answered, and rescan_blockchain fails with         *)
(* contention only.  sync() runs on without being suspended, and           *)
(* contention clears: a rescan attempt that can succeed infinitely often   *)
(* eventually does.                                                        *)
(* ---------------------------------------------------------------------- *)
Answered == result' \notin {"Err", "Panic"}

LiveResolve == SyncResolve /\ Answered
LiveBuildCatalog == SyncBuildCatalog /\ Answered
LiveImport == SyncImport /\ Answered /\ calls'.imported = calls.imported + 1
LiveGetBlockCount == SyncGetBlockCount /\ Answered
LiveRescan == SyncRescan /\ calls'.other = calls.other
LiveRescanOk == SyncRescan /\ calls'.Ok = calls.Ok + 1
LiveHdIndex == SyncHdIndex /\ hd_outcome' = "ok"

LiveNext ==
    \/ Connect
    \/ LiveResolve
    \/ LiveBuildCatalog
    \/ LiveImport
    \/ LiveGetBlockCount
    \/ LiveRescan
    \/ LiveHdIndex
    \/ MineBlock
    \/ AddIncomingSwapcoin
    \/ AddOutgoingSwapcoin
    \/ AddFidelityBond

LiveSpec ==
    /\ Init
    /\ [][LiveNext]_vars
    /\ WF_vars(LiveBuildCatalog)
    /\ WF_vars(LiveImport)
    /\ WF_vars(LiveGetBlockCount)
    /\ WF_vars(LiveRescan)
    /\ SF_vars(LiveRescanOk)
    /\ WF_vars(LiveHdIndex)

TypeOK ==
    /\ conn \in {"none", "Ok", "Protocol", "RpcErr"}
    /\ pc \in {"idle", "catalog", "import", "loop", "rescan", "hd", "done", "panicked"}
    /\ tip \in 0..MaxHeight

(* ---------------------------------------------------------------------- *)
(* Properties                                                              *)
(* ---------------------------------------------------------------------- *)
EmptyStore ==
    /\ incoming_swapcoins = {}
    /\ outgoing_swapcoins = {}
    /\ fidelity_bond = <<>>

FidelityDescriptorSet ==
    {GetDescriptorInfo(RawText(fidelity_bond[i])) : i \in 1..Len(fidelity_bond)}

\* every descriptor derivable from a tracked entity
DerivableDescriptors ==
    {GetDescriptorInfo(MultisigText(sc)) :
        sc \in incoming_swapcoins \cup outgoing_swapcoins}
    \cup {GetDescriptorInfo(RawText(RedeemscriptToScriptpubkey(
              sc.contract_redeemscript))) :
        sc \in incoming_swapcoins \cup outgoing_swapcoins}
    \cup FidelityDescriptorSet

\* C1: a sync() that starts right after a sync() that returned Ok, with no
\* tracked entity added and no block connected since, issues no
\* import-descriptors request and no rescan request.
C1_Idempotence == idem_call => (calls.import = 0 /\ calls.rescan = 0)

\* C2: store.last_synced_height never decreases from one state to the
\* next, and once Some it never becomes None again.
C2_Monotonic ==
    [][/\ UnwrapOr(last_synced_height', 0) >= UnwrapOr(last_synced_height, 0)
       /\ (last_synced_height # None => last_synced_height' # None)]_vars

\* a retried sync() has recorded a height above the start of its scan
C2_Witness ==
    /\ pc = "hd"
    /\ calls.sleep >= 1
    /\ last_synced_height = Some(node_synced)
    /\ node_synced > scan_start

\* C3: no descriptor of a batch that sync() is about to submit is already
\* in the node's import ledger.
C3_NoDoubleImport ==
    pc = "import" =>
        \A i \in 1..Len(descriptors_to_import) :
            descriptors_to_import[i] \notin ledger

\* C4: when sync() has returned Ok, every descriptor derivable from a
\* tracked entity (multisig and contract descriptor of every swap-coin, raw
\* descriptor of every fidelity bond) is in the import ledger.
C4_NoOmission ==
    (pc = "done" /\ result = "Ok") => DerivableDescriptors \subseteq ledger

\* sync() returned Ok for a store that holds all three kinds of entity
C4_Witness ==
    /\ pc = "done"
    /\ result = "Ok"
    /\ incoming_swapcoins # {}
    /\ outgoing_swapcoins # {}
    /\ Len(fidelity_bond) = MaxBonds

\* C5: when the rescan request failed with contention on the first N
\* attempts only and then succeeded, sync() has slept N times, issued N+1
\* rescan requests and recorded the tip read by the last attempt; it then
\* returns Ok unless the HD index step fails.
C5_RetryConvergence ==
    /\ ((pc = "hd" \/ (pc = "done" /\ result = "Ok" /\ calls.import > 0))
           /\ calls.other = 0)
        => /\ calls.sleep = calls.contention
           /\ calls.rescan = calls.contention + 1
           /\ last_synced_height = Some(node_synced)
    /\ (pc = "done" /\ calls.rescan > calls.sleep)
        => (result = "Ok" \/ err_at \in {"find_hd_next_index",
                                         "update_external_index"})

\* sync() returned Ok after two contention failures
C5_Witness ==
    /\ pc = "done"
    /\ result = "Ok"
    /\ calls.contention = 2
    /\ calls.other = 0
    /\ calls.rescan = 3

\* C6: when the node reports a chain other than the configured network,
\* try_from yields the Protocol error and no load, create, import or rescan
\* request is ever issued.
C6_NetworkGuard ==
    (chain \in ChainNames /\ config_network # StrToBitcoinNetwork(chain))
        => (conn = "Protocol" /\ pc = "idle" /\ calls = NoCalls
            /\ ledger = {} /\ observed = "none")

\* a connection attempt was refused for its network
C6_Witness ==
    /\ conn = "Protocol"
    /\ chain \in ChainNames
    /\ config_network # StrToBitcoinNetwork(chain)

\* C7: with no swap-coins, no fidelity bonds and every wallet descriptor
\* in the ledger, the catalog step of sync() (its wallet-descriptor query
\* succeeding) returns Ok without an import or a rescan request.
C7_EmptyShortCircuit ==
    [][(/\ pc = "catalog"
        /\ pc' # "catalog"
        /\ EmptyStore
        /\ Range(WalletDescriptors) \subseteq ledger
        /\ err_at' # "get_unimported_wallet_desc")
         => (/\ pc' = "done"
             /\ result' = "Ok"
             /\ calls'.import = 0
             /\ calls'.rescan = 0)]_vars

\* sync() took the early return on an empty store
C7_Witness ==
    /\ pc = "done"
    /\ result = "Ok"
    /\ EmptyStore
    /\ Range(WalletDescriptors) \subseteq ledger
    /\ observed = "loaded"
    /\ calls = NoCalls

\* C8: a rescan request that fails for a reason other than contention
\* makes sync() return that error at once: no sleep, no further attempt.
C8_RescanErrorClassification ==
    calls.other > 0 =>
        /\ pc = "done"
        /\ result = "Err"
        /\ err_at = "rescanblockchain"
        /\ calls.sleep = calls.contention

\* C9: in a batch about to be submitted, the fidelity bond descriptors are
\* absent when the bonds are non-empty and the first and the last
\* script-pub-key are watch-only, and all present otherwise.
C9_FidelityProbe ==
    pc = "import" =>
        IF /\ fidelity_bond # <<>>
           /\ IsWatchonly(fidelity_bond[1], ledger)
           /\ IsWatchonly(fidelity_bond[Len(fidelity_bond)], ledger)
        THEN FidelityDescriptorSet \cap Range(descriptors_to_import) = {}
        ELSE FidelityDescriptorSet \subseteq Range(descriptors_to_import)

\* C10: a sync() whose list, directory and version queries succeeded has
\* requested neither load nor create when the wallet was loaded, one load
\* and no create when it was only on disk, and otherwise one create and no
\* load: the legacy call below version 210000, the six-argument call from
\* there on.
C10_ResolutionPriority ==
    (observed # "none"
       /\ err_at \notin {"listwallets", "listwalletdir", "getnetworkinfo"})
    => CASE observed = "loaded" ->
              calls.load = 0 /\ calls.create = 0 /\ create_kind = "none"
         [] observed = "ondisk" ->
              calls.load = 1 /\ calls.create = 0 /\ create_kind = "none"
         [] observed = "absent" ->
              /\ calls.load = 0
              /\ calls.create = 1
              /\ create_kind = IF version < 210000 THEN "legacy" ELSE "call"

\* the wallet was created with the six-argument call at version 210000
C10_Witness ==
    /\ observed = "absent"
    /\ version = 210000
    /\ create_kind = "call"
    /\ calls.create = 1
    /\ wallet_state = "loaded"

\* C11: when, after a successful rescan, the highest-used-index query or
\* the update of the external index watermark fails, sync() returns that
\* error to the caller and not Ok.
C11_HdFailureSurfaced ==
    hd_outcome \in {"find", "update"} =>
        /\ pc \in {"done", "idle"}
        /\ result = "Err"
        /\ err_at = IF hd_outcome = "find" THEN "find_hd_next_index"
                    ELSE "update_external_index"

\* the watermark update failed after a successful rescan
C11_Witness ==
    /\ pc = "done"
    /\ hd_outcome = "update"
    /\ result = "Err"
    /\ last_synced_height = Some(node_synced)

\* C12: every rescan attempt starts at max(last_synced_height or 0,
\* wallet_birthday or 0) and ends at the tip height that the block-count
\* query of that same attempt returned.
C12_RescanBounds ==
    [][pc' = "rescan" =>
          /\ scan_start' = Max(UnwrapOr(last_synced_height', 0),
                               UnwrapOr(wallet_birthday', 0))
          /\ (pc = "loop" => node_synced' = tip)]_vars

\* a rescan attempt from the birthday has failed and the tip has grown
\* past its end height; the retry is about to read the new tip
C12_Witness ==
    /\ pc = "loop"
    /\ calls.sleep >= 1
    /\ calls.rescan >= 1
    /\ tip > node_synced
    /\ wallet_birthday # None
    /\ scan_start = Birthday

\* C13: sync() writes last_synced_height only when the node has completed
\* a rescan request, and writes the end height of that request; so the
\* stored height is never above a height that a successful rescan covered,
\* nor above the tip.
C13_NeverAhead ==
    /\ [][last_synced_height' # last_synced_height =>
             /\ pc = "rescan"
             /\ calls'.Ok = calls.Ok + 1
             /\ last_synced_height' = Some(node_synced)]_vars
    /\ [](last_synced_height # None => last_synced_height[1] <= tip)

\* the tip grew while a retried scan ran; the recorded height is its end
C13_Witness ==
    /\ pc = "hd"
    /\ calls.sleep >= 1
    /\ calls.Ok = 1
    /\ last_synced_height = Some(node_synced)
    /\ tip > node_synced

ResolveQueries == {"listwallets", "listwalletdir", "getnetworkinfo"}

\* C14: within one sync(), an import request comes only after the wallet
\* was resolved, a rescan request only after the import request succeeded,
\* the HD index step only after a rescan request succeeded; after a failed
\* import there is neither a rescan nor an HD index step.
C14_StepOrdering ==
    /\ calls.import > 0 =>
          /\ observed # "none"
          /\ wallet_state = "loaded"
          /\ err_at \notin ResolveQueries \cup {"loadwallet", "createwallet"}
    /\ (calls.rescan > 0 \/ pc \in {"loop", "rescan"}) =>
          (calls.import = 1 /\ calls.imported = 1)
    /\ hd_outcome # "none" => (calls.Ok >= 1 /\ calls.imported = 1)
    /\ calls.import > calls.imported =>
          (calls.rescan = 0 /\ hd_outcome = "none" /\ calls.writes = 0)

\* a sync() that created the wallet went through all five steps
C14_Witness ==
    /\ pc = "done"
    /\ result = "Ok"
    /\ observed = "absent"
    /\ calls.create = 1
    /\ calls.imported = 1
    /\ calls.rescan >= 2
    /\ hd_outcome = "ok"

\* C15: last_synced_height is written only in the step in which the node
\* completes a rescan request, at most once per sync(); every other step
\* (failed attempt, early return, failure of resolution, catalog, import or
\* block-count query) leaves it as it was.
C15_Frame ==
    [][/\ last_synced_height' # last_synced_height =>
              (pc = "rescan" /\ calls'.writes = calls.writes + 1)
       /\ calls'.writes = calls.writes + 1 =>
              (pc = "rescan" /\ calls'.Ok = calls.Ok + 1)
       /\ calls'.writes <= 1]_vars

\* a sync() had failed attempts and then its single write
C15_Witness ==
    /\ pc = "done"
    /\ result = "Ok"
    /\ calls.contention >= 1
    /\ calls.other >= 1
    /\ calls.writes = 1
    /\ last_synced_height = Some(node_synced)

InProgress == pc \in {"catalog", "import", "loop", "rescan", "hd"}

\* C16: a rescan attempt that fails with contention never makes sync()
\* return: it sleeps and goes back to the top of the loop; and when
\* contention eventually clears and every other request is answered, every
\* sync() call eventually returns Ok.
C16_Termination ==
    /\ [][(pc = "rescan" /\ calls'.contention = calls.contention + 1) =>
             (/\ pc' = "loop"
              /\ result' = "none"
              /\ calls'.sleep = calls.sleep + 1)]_vars
    /\ (InProgress ~> (pc = "done" /\ result = "Ok"))

\* sync() returned Ok after as many contention failures as are explored
C16_Witness ==
    /\ pc = "done"
    /\ result = "Ok"
    /\ calls.contention = MaxRetries
    /\ calls.sleep = MaxRetries
    /\ hd_outcome = "ok"

\* C17 as stated: at most one create-wallet request is ever issued, and
\* once a sync() has found, loaded or created the wallet no later sync()
\* issues a load or create request.
C17_BootstrapOnce ==
    [][SyncResolve =>
          /\ create_issued => calls'.create = 0
          /\ bootstrapped => (calls'.load = 0 /\ calls'.create = 0)]_vars

\* C17 as amended: a create-wallet request is issued again only while the
\* wallet is still absent, every earlier one having failed, so at most one
\* ever succeeds; and once a sync() has found, loaded or created the wallet
\* no later sync() issues a load or create request.
C17_BootstrapOnceAmended ==
    [][SyncResolve =>
          /\ (create_issued /\ calls'.create = 1) =>
                (~bootstrapped /\ wallet_state = "absent")
          /\ bootstrapped => (calls'.load = 0 /\ calls'.create = 0)]_vars

\* a create request created the wallet; a later sync() found it loaded and
\* issued neither a load nor a create request
C17_Witness ==
    /\ bootstrapped
    /\ create_issued
    /\ pc = "done"
    /\ result = "Ok"
    /\ observed = "loaded"
    /\ calls.load = 0
    /\ calls.create = 0

\* C18: whenever sync() reaches the import-descriptors call, and in the
\* request it then makes, the batch holds at least one descriptor; a probe
\* that returned false comes with a non-empty bond collection whose
\* descriptors are all in the batch.
C18_BatchNonEmpty ==
    (pc = "import" \/ (calls.import > 0 /\ pc # "idle")) =>
        /\ Len(descriptors_to_import) >= 1
        /\ ~is_fidelity_addrs_imported =>
              /\ fidelity_bond # <<>>
              /\ FidelityDescriptorSet \subseteq Range(descriptors_to_import)

\* the probe found the first bond imported and the last one not
C18_Witness ==
    /\ pc = "import"
    /\ ~is_fidelity_addrs_imported
    /\ Len(fidelity_bond) = 2
    /\ IsWatchonly(fidelity_bond[1], ledger)
    /\ ~IsWatchonly(fidelity_bond[2], ledger)

\* C19 as stated: every rescan request covers a well-formed interval, its
\* start height is at most its end height, whatever the stored
\* last_synced_height, the wallet_birthday and the chain tip are.
C19_WellFormedInterval ==
    pc = "rescan" => scan_start <= node_synced

\* C19 as amended: a rescan request covers a well-formed interval whenever
\* the stored last_synced_height (or 0) and the wallet_birthday (or 0) are
\* both at most the chain tip read in that attempt.
C19_WellFormedIntervalAmended ==
    (/\ pc = "rescan"
     /\ UnwrapOr(last_synced_height, 0) <= node_synced
     /\ UnwrapOr(wallet_birthday, 0) <= node_synced)
        => scan_start <= node_synced

\* an attempt scans the one-block interval at a recorded height
C19_Witness ==
    /\ pc = "rescan"
    /\ wallet_birthday # None
    /\ last_synced_height # None
    /\ last_synced_height[1] = node_synced
    /\ scan_start = node_synced
    /\ node_synced >= Birthday

\* C20: when the HD index step fails after a successful rescan, sync()
\* returns Err, last_synced_height keeps the height just recorded and the
\* external index keeps its old value; the next sync(), with nothing new to
\* import, takes the early return: no import, no rescan, no HD index step.
C20_NoRollback ==
    /\ [][(pc = "hd" /\ hd_outcome' \in {"find", "update"}) =>
             /\ result' = "Err"
             /\ last_synced_height' = Some(node_synced)
             /\ external_index' = external_index]_vars
    /\ [](late_call =>
             /\ calls.import = 0
             /\ calls.rescan = 0
             /\ hd_outcome = "none")

====
